---- MODULE Spec2Model ----
(***************************************************************************)
(* Gradient estimators of pydrobert.torch.estimators: to_z, to_b,          *)
(* _to_z_tilde, reinforce, relax and REBARControlVariate.                  *)
(*                                                                         *)
(* Numbers.  A real number is an exact rational <<n, d>> with d > 0 in     *)
(* lowest terms.  A value that lives in log-space (logits, z, z_tilde) is  *)
(* represented by the rational that is its exponential: the logit l is     *)
(* stored as exp(l), so that l > 0 reads exp(l) > 1 and l1 + l2 reads      *)
(* exp(l1) * exp(l2).  All arithmetic is exact.                            *)
(*                                                                         *)
(* Tensors.  A tensor is [shape, row]: its shape, and the values that      *)
(* belong to one sample (one index of the leading dimensions): D values    *)
(* for a tensor that has the last (category) dimension, one value for a    *)
(* tensor that has one value per sample.                                   *)
(***************************************************************************)
EXTENDS Integers, Sequences, FiniteSets, TLC

VARIABLES call, out, cv, last

vars == <<call, out, cv, last>>

(* ------------------------------ bounds -------------------------------- *)
MaxD == 2
ThetaDen == 4
RandDen == 4
MaxRank == 2
MaxDim == 2
MaxLogTemp == 2

(* --------------------------- exact rationals --------------------------- *)
RECURSIVE GCD(_, _)
GCD(a, b) == IF b = 0 THEN a ELSE GCD(b, a % b)

Abs(a) == IF a < 0 THEN -a ELSE a

R(n, d) ==
  LET s == IF d < 0 THEN -1 ELSE 1
      g == GCD(Abs(n), Abs(d))
  IN  <<(s * n) \div g, (s * d) \div g>>

Zero == <<0, 1>>
One == <<1, 1>>
RInt(k) == <<k, 1>>
RAdd(x, y) == R(x[1] * y[2] + y[1] * x[2], x[2] * y[2])
RSub(x, y) == R(x[1] * y[2] - y[1] * x[2], x[2] * y[2])
RMul(x, y) == R(x[1] * y[1], x[2] * y[2])
RDiv(x, y) == R(x[1] * y[2], x[2] * y[1])
RLt(x, y) == x[1] * y[2] < y[1] * x[2]
RMin(x, y) == IF RLt(y, x) THEN y ELSE x
RMax(x, y) == IF RLt(x, y) THEN y ELSE x

RECURSIVE RSum(_)
RSum(s) == IF s = <<>> THEN Zero ELSE RAdd(Head(s), RSum(Tail(s)))

(* ------------------------------- tensors ------------------------------- *)
Tensor(shape, row) == [shape |-> shape, row |-> row]
(* a tensor with its requires_grad flag: logits, and the z of to_z *)
Logits(shape, row, rg) == [shape |-> shape, row |-> row, requires_grad |-> rg]
NoTensor == Tensor(<<>>, <<>>)
Front(s) == SubSeq(s, 1, Len(s) - 1)

(* t.unsqueeze(-1), t[..., None]: a trailing dimension of size 1 *)
unsqueeze_missing(t) == t
unsqueeze(t) == Tensor(Append(t.shape, 1), t.row)

(* torch's broadcasting of two shapes, aligned at the trailing dimension *)
RECURSIVE Broadcastable(_, _)
Broadcastable(s, t) ==
  \/ s = <<>>
  \/ t = <<>>
  \/ /\ (s[Len(s)] = t[Len(t)] \/ s[Len(s)] = 1 \/ t[Len(t)] = 1)
     /\ Broadcastable(Front(s), Front(t))

RECURSIVE BroadcastShape(_, _)
BroadcastShape(s, t) ==
  IF s = <<>> THEN t
  ELSE IF t = <<>> THEN s
  ELSE Append(BroadcastShape(Front(s), Front(t)),
              IF s[Len(s)] = 1 THEN t[Len(t)] ELSE s[Len(s)])

RowAt(row, i) == IF Len(row) = 1 THEN row[1] ELSE row[i]
RowLen(a, b) == IF Len(a.row) >= Len(b.row) THEN Len(a.row) ELSE Len(b.row)

(* elementwise product, sum and difference with broadcasting *)
Mul(a, b) ==
  Tensor(BroadcastShape(a.shape, b.shape),
         [i \in 1..RowLen(a, b) |-> RMul(RowAt(a.row, i), RowAt(b.row, i))])

Add(a, b) ==
  Tensor(BroadcastShape(a.shape, b.shape),
         [i \in 1..RowLen(a, b) |-> RAdd(RowAt(a.row, i), RowAt(b.row, i))])

Sub(a, b) ==
  Tensor(BroadcastShape(a.shape, b.shape),
         [i \in 1..RowLen(a, b) |-> RSub(RowAt(a.row, i), RowAt(b.row, i))])

(* ------------------------- distribution tags ------------------------- *)
BERNOULLI_SYNONYMS == {"bern", "Bern", "bernoulli", "Bernoulli"}
CATEGORICAL_SYNONYMS == {"cat", "Cat", "categorical", "Categorical"}
ONEHOT_SYNONYMS == {"onehot", "OneHotCategorical"}

(* the tags a caller passes: every accepted spelling and an unknown one *)
Tags ==
  BERNOULLI_SYNONYMS \cup CATEGORICAL_SYNONYMS \cup ONEHOT_SYNONYMS
    \cup {"poisson"}

(* ------------------------- the uniform source ------------------------- *)
(* torch.rand_like draws from [0, 1): a draw is an index k of a grid whose  *)
(* point 0 is the value 0.  Where the code takes log(u) and log(1 - u)      *)
(* (Bernoulli) point k is u = k / RandDen; where it takes log(-log(u))      *)
(* (the Gumbel families) point k is u = exp(-(RandDen - k) / k), kept as    *)
(* the rational -log(u), which is infinite at k = 0.                       *)
RawDraws == 0..(RandDen - 1)
EpsDen == 16
Eps == R(1, EpsDen)

(* clamp_probs on a draw u: into [eps, 1 - eps] *)
clamp_probs_identity(k) == R(k, RandDen)
clamp_probs(k) == RMax(Eps, RMin(RSub(One, Eps), R(k, RandDen)))

(* -log(clamp_probs(u)) of a Gumbel-family draw: into [1/EpsDen, EpsDen], *)
(* the images of 1 - eps and eps                                          *)
neg_log_clamp_probs(k) ==
  IF k = 0 THEN RInt(EpsDen)
  ELSE RMax(Eps, RMin(RInt(EpsDen), R(RandDen - k, k)))

(* ---------------------------- softmax ---------------------------- *)
(* softmax of logits along the last dimension; logits are stored as exp *)
softmax(row) == [i \in 1..Len(row) |-> RDiv(row[i], RSum(row))]

Outcome(exc, warned, draws, c_calls, ret) ==
  [exc |-> exc, warned |-> warned, draws |-> draws, c_calls |-> c_calls,
   ret |-> ret]

(* ------------------------------- to_z ------------------------------- *)
(* logits: a tensor with the field requires_grad; noise: what rand_like *)
(* returns, one draw per element of logits                             *)
to_z(logits, dist, warn, noise) ==
  LET warned == warn /\ ~logits.requires_grad
      D == Len(logits.row)
  IN  IF dist \in BERNOULLI_SYNONYMS
      THEN LET u == [i \in 1..D |-> clamp_probs(noise[i])]
           IN  Outcome("none", warned, 1, 0,
                 Logits(logits.shape,
                   [i \in 1..D |->
                      RDiv(RMul(logits.row[i], u[i]), RSub(One, u[i]))],
                   TRUE))
      ELSE IF dist \in CATEGORICAL_SYNONYMS \cup ONEHOT_SYNONYMS
      THEN LET theta == softmax(logits.row)
           IN  Outcome("none", warned, 1, 0,
                 Logits(logits.shape,
                   [i \in 1..D |->
                      RDiv(theta[i], neg_log_clamp_probs(noise[i]))],
                   TRUE))
      ELSE Outcome("ValueError", warned, 1, 0, NoTensor)

(* ------------------------------- to_b ------------------------------- *)
(* z.argmax(dim=-1): the (first) index of the maximum, from 0 *)
IsMax(row, i) == \A j \in 1..Len(row) : ~RLt(row[i], row[j])
argmax(row) ==
  (CHOOSE i \in 1..Len(row) :
     IsMax(row, i) /\ \A j \in 1..(i - 1) : ~IsMax(row, j)) - 1

to_b_bern_ge(z) ==
  Tensor(z.shape, [i \in 1..Len(z.row) |-> IF ~RLt(z.row[i], One) THEN 1 ELSE 0])

(* z.gt(0.) reads exp(z) > 1 *)
to_b_bern(z) ==
  Tensor(z.shape, [i \in 1..Len(z.row) |-> IF RLt(One, z.row[i]) THEN 1 ELSE 0])

to_b_onehot_allmax(z) ==
  Tensor(z.shape, [i \in 1..Len(z.row) |-> IF IsMax(z.row, i) THEN 1 ELSE 0])

to_b_onehot(z) ==
  Tensor(z.shape,
         [i \in 1..Len(z.row) |-> IF i = argmax(z.row) + 1 THEN 1 ELSE 0])

to_b_no_raise(z, dist) ==
  IF dist \in CATEGORICAL_SYNONYMS
  THEN Outcome("none", FALSE, 0, 0, Tensor(Front(z.shape), <<argmax(z.row)>>))
  ELSE IF dist \in ONEHOT_SYNONYMS
  THEN Outcome("none", FALSE, 0, 0, to_b_onehot(z))
  ELSE Outcome("none", FALSE, 0, 0, to_b_bern(z))

to_b(z, dist) ==
  IF dist \in BERNOULLI_SYNONYMS
  THEN Outcome("none", FALSE, 0, 0, to_b_bern(z))
  ELSE IF dist \in CATEGORICAL_SYNONYMS
  THEN Outcome("none", FALSE, 0, 0, Tensor(Front(z.shape), <<argmax(z.row)>>))
  ELSE IF dist \in ONEHOT_SYNONYMS
  THEN Outcome("none", FALSE, 0, 0, to_b_onehot(z))
  ELSE Outcome("ValueError", FALSE, 0, 0, NoTensor)

(* ---------------------------- _to_z_tilde ---------------------------- *)
(* Bernoulli: exp(z_tilde) = exp(logits) * v' / (1 - v') *)
z_tilde_bern(logit, b, v) ==
  LET om_theta == RDiv(One, RAdd(One, logit))
      v_prime ==
        RAdd(RMul(RInt(b), RAdd(RMul(v, RSub(One, om_theta)), om_theta)),
             RMul(RMul(RInt(1 - b), v), om_theta))
  IN  RDiv(RMul(logit, v_prime), RSub(One, v_prime))

(* Gumbel families, e = -log(v), k the observed category (from 1):       *)
(* exp(z_tilde) is 1 / e[k] at k and 1 / (e[i] / theta[i] + e[k]) elsewhere *)
z_tilde_gumbel(theta, e, k) ==
  [i \in 1..Len(theta) |->
     IF i = k THEN RDiv(One, e[i])
     ELSE RDiv(One, RAdd(RDiv(e[i], theta[i]), e[k]))]

_to_z_tilde(logits, b, dist, noise) ==
  LET D == Len(logits.row)
  IN  IF dist \in BERNOULLI_SYNONYMS
      THEN Outcome("none", FALSE, 1, 0,
             Tensor(logits.shape,
               [i \in 1..D |->
                  z_tilde_bern(logits.row[i], b.row[i], clamp_probs(noise[i]))]))
      ELSE IF dist \in CATEGORICAL_SYNONYMS
      THEN Outcome("none", FALSE, 1, 0,
             Tensor(logits.shape,
               z_tilde_gumbel(softmax(logits.row),
                              [i \in 1..D |-> neg_log_clamp_probs(noise[i])],
                              b.row[1] + 1)))
      ELSE IF dist \in ONEHOT_SYNONYMS
      THEN Outcome("none", FALSE, 1, 0,
             Tensor(logits.shape,
               z_tilde_gumbel(softmax(logits.row),
                              [i \in 1..D |-> neg_log_clamp_probs(noise[i])],
                              argmax([i \in 1..D |-> RInt(b.row[i])]) + 1)))
      ELSE Outcome("ValueError", FALSE, 1, 0, NoTensor)

(* ------------------ the gradient of log Pr(b; logits) ------------------ *)
(* torch.autograd.grad([log_pb], [logits], ones_like(log_pb)) in closed     *)
(* form: b - sigmoid(logits) for Bernoulli, onehot(b) - softmax(logits) for *)
(* the categorical families.  It has the shape of logits.                   *)
dlog_pb_bern(logits, b) ==
  Tensor(logits.shape,
         [i \in 1..Len(logits.row) |->
            RSub(RInt(RowAt(b.row, i)),
                 RDiv(logits.row[i], RAdd(One, logits.row[i])))])

dlog_pb_cat(logits, b) ==
  LET theta == softmax(logits.row)
  IN  Tensor(logits.shape,
             [i \in 1..Len(logits.row) |->
                RSub(RInt(IF i = b.row[1] + 1 THEN 1 ELSE 0), theta[i])])

dlog_pb_onehot(logits, b) ==
  LET theta == softmax(logits.row)
  IN  Tensor(logits.shape,
             [i \in 1..Len(logits.row) |->
                RSub(RInt(RowAt(b.row, i)), theta[i])])

ToReal(t) == Tensor(t.shape, [i \in 1..Len(t.row) |-> RInt(t.row[i])])

(* ------------------------------ reinforce ------------------------------ *)
reinforce(fb, b, logits, dist) ==
  IF dist \in BERNOULLI_SYNONYMS
  THEN IF Broadcastable(fb.shape, logits.shape)
       THEN Outcome("none", FALSE, 0, 0,
                    Mul(ToReal(fb), dlog_pb_bern(logits, b)))
       ELSE Outcome("RuntimeError", FALSE, 0, 0, NoTensor)
  ELSE IF dist \in CATEGORICAL_SYNONYMS
  THEN IF Broadcastable(unsqueeze(fb).shape, logits.shape)
       THEN Outcome("none", FALSE, 0, 0,
                    Mul(ToReal(unsqueeze(fb)), dlog_pb_cat(logits, b)))
       ELSE Outcome("RuntimeError", FALSE, 0, 0, NoTensor)
  ELSE IF dist \in ONEHOT_SYNONYMS
  THEN IF Broadcastable(unsqueeze(fb).shape, logits.shape)
       THEN Outcome("none", FALSE, 0, 0,
                    Mul(ToReal(unsqueeze(fb)), dlog_pb_onehot(logits, b)))
       ELSE Outcome("RuntimeError", FALSE, 0, 0, NoTensor)
  ELSE Outcome("ValueError", FALSE, 0, 0, NoTensor)

(* -------------------------------- relax -------------------------------- *)
(* The control variate c is the caller's: it is the record of what it    *)
(* answers in this call, c(z_tilde) and the gradients of c(z) and of     *)
(* c(z_tilde) w.r.t. logits as autograd returns them, each the same at   *)
(* every element.  c(z) has the shape of z for Bernoulli and of z[..., 0] *)
(* for the categorical families.                                         *)
c_out(c_val, like, dist) ==
  IF dist \in BERNOULLI_SYNONYMS
  THEN Tensor(like.shape, [i \in 1..Len(like.row) |-> RInt(c_val)])
  ELSE Tensor(Front(like.shape), <<RInt(c_val)>>)

c_grad(d_val, logits) ==
  Tensor(logits.shape, [i \in 1..Len(logits.row) |-> RInt(d_val)])

relax_combine_plus(diff, dlog_pb, dc_z, dc_z_tilde) ==
  Add(Add(Mul(diff, dlog_pb), dc_z), dc_z_tilde)

(* diff * dlog_pb + dc_z - dc_z_tilde *)
relax_combine(diff, dlog_pb, dc_z, dc_z_tilde) ==
  Sub(Add(Mul(diff, dlog_pb), dc_z), dc_z_tilde)

relax(fb, b, logits, c, dist, components, noise) ==
  LET zt == _to_z_tilde(logits, b, dist, noise)
      c_z_tilde == c_out(c.at_z_tilde, zt.ret, dist)
      bern == dist \in BERNOULLI_SYNONYMS
      diff0_ok == Broadcastable(fb.shape, c_z_tilde.shape)
      diff0 == Sub(ToReal(fb), c_z_tilde)
      diff == IF bern THEN diff0 ELSE unsqueeze(diff0)
      dlog_pb == IF bern THEN dlog_pb_bern(logits, b)
                 ELSE IF dist \in CATEGORICAL_SYNONYMS
                 THEN dlog_pb_cat(logits, b)
                 ELSE dlog_pb_onehot(logits, b)
      dc_z == c_grad(c.d_z, logits)
      dc_z_tilde == c_grad(c.d_z_tilde, logits)
  IN  IF zt.exc # "none" THEN Outcome(zt.exc, FALSE, zt.draws, 0, NoTensor)
      ELSE IF ~diff0_ok THEN Outcome("RuntimeError", FALSE, zt.draws, 2, NoTensor)
      ELSE IF dist \notin BERNOULLI_SYNONYMS \cup CATEGORICAL_SYNONYMS
                            \cup ONEHOT_SYNONYMS
      THEN Outcome("ValueError", FALSE, zt.draws, 2, NoTensor)
      ELSE IF components
      THEN Outcome("none", FALSE, zt.draws, 2,
                   [diff |-> diff, dlog_pb |-> dlog_pb, dc_z |-> dc_z,
                    dc_z_tilde |-> dc_z_tilde])
      ELSE IF ~Broadcastable(diff.shape, logits.shape)
      THEN Outcome("RuntimeError", FALSE, zt.draws, 2, NoTensor)
      ELSE Outcome("none", FALSE, zt.draws, 2,
                   relax_combine(diff, dlog_pb, dc_z, dc_z_tilde))

(* ------------------------ REBARControlVariate ------------------------ *)
(* log_temp is counted in units of ln(10): exp(k) is 10^k and log(10^k) is *)
(* k.  <<-1, 0>> is -inf and <<0, 0>> is nan.                             *)
NegInf == <<-1, 0>>
NaN == <<0, 0>>

RECURSIVE Pow10(_)
Pow10(k) ==
  IF k = 0 THEN One
  ELSE IF k > 0 THEN RMul(RInt(10), Pow10(k - 1))
  ELSE RDiv(Pow10(k + 1), RInt(10))

RECURSIVE Log10(_)
Log10(x) ==
  IF x = One THEN 0
  ELSE IF RLt(x, One) THEN Log10(RMul(x, RInt(10))) - 1
  ELSE Log10(RDiv(x, RInt(10))) + 1

(* torch.exp and Tensor.log_ *)
Exp(l) == IF l = NegInf THEN Zero ELSE IF l = NaN THEN NaN ELSE Pow10(l[1])
Log(x) ==
  IF x = Zero THEN NegInf ELSE IF RLt(x, Zero) THEN NaN ELSE RInt(Log10(x))

NoCV == [dist |-> "none"]

reset_parameters_no_log(self) ==
  [self EXCEPT !.log_temp = self.start_temp, !.eta = self.start_eta]

reset_parameters(self) ==
  [self EXCEPT !.log_temp = Log(self.start_temp), !.eta = self.start_eta]

start_temp_invalid_strict(start_temp) == RLt(start_temp, Zero)

(* start_temp <= 0. *)
start_temp_invalid(start_temp) == ~RLt(Zero, start_temp)

(* the parameters are torch.Tensor(1), not initialised, until the reset *)
NewCV(dist, bernoulli, start_temp, start_eta) ==
  reset_parameters([dist |-> dist, _bernoulli |-> bernoulli,
                    start_temp |-> start_temp, start_eta |-> start_eta,
                    log_temp |-> Zero, eta |-> Zero])

__init__(dist, start_temp, start_eta, warn) ==
  IF start_temp_invalid(start_temp)
  THEN [exc |-> "ValueError", warned |-> FALSE, self |-> NoCV]
  ELSE IF dist \in BERNOULLI_SYNONYMS
  THEN [exc |-> "none", warned |-> FALSE,
        self |-> NewCV(dist, TRUE, start_temp, start_eta)]
  ELSE IF dist \in ONEHOT_SYNONYMS
  THEN [exc |-> "none", warned |-> FALSE,
        self |-> NewCV(dist, FALSE, start_temp, start_eta)]
  ELSE IF dist \in CATEGORICAL_SYNONYMS
  THEN [exc |-> "none", warned |-> warn,
        self |-> NewCV(dist, FALSE, start_temp, start_eta)]
  ELSE [exc |-> "ValueError", warned |-> FALSE, self |-> NoCV]

temperature_raw(self) == self.log_temp

(* torch.exp(self.log_temp), by which forward divides z *)
temperature(self) == Exp(self.log_temp)

(* z is a row of reals; fz is what the objective f answers on the relaxed *)
(* sample.  z_temp is nan where the division is by zero.                  *)
forward(self, z, fz) ==
  LET temp == temperature(self)
  IN  [temp |-> temp,
       z_temp |-> [i \in 1..Len(z) |->
                     IF temp[1] = 0 THEN NaN ELSE RDiv(z[i], temp)],
       relaxation |-> IF self._bernoulli THEN "sigmoid" ELSE "softmax",
       ret |-> RMul(self.eta, fz)]

(* ------------------------- what a caller passes ------------------------- *)
LogitVals == {R(p, ThetaDen - p) : p \in 1..(ThetaDen - 1)}
Rows(D, S) == [1..D -> S]
ConstRows(D, S) == {[i \in 1..D |-> x] : x \in S}
FbVals == {-1, 2}
CVals == {0, 1}
Controls == [at_z_tilde : CVals, d_z : CVals, d_z_tilde : CVals]
Flags == {<<TRUE, FALSE>>, <<TRUE, TRUE>>, <<FALSE, FALSE>>}

(* every spelling is passed with one category, one spelling of each family *)
(* and the unknown tag with every number of categories                     *)
CanonicalTags == {"bern", "cat", "onehot", "poisson"}
Dims(dist) == IF dist \in CanonicalTags THEN 1..MaxD ELSE {1}

(* the samples of a family over D categories; an unknown tag gets any row *)
Support(dist, pre, D) ==
  IF dist \in CATEGORICAL_SYNONYMS
  THEN {Tensor(pre, <<k>>) : k \in 0..(D - 1)}
  ELSE IF dist \in ONEHOT_SYNONYMS
  THEN {Tensor(pre \o <<D>>, [i \in 1..D |-> IF i = k THEN 1 ELSE 0]) : k \in 1..D}
  ELSE {Tensor(pre \o <<D>>, r) : r \in Rows(D, {0, 1})}

(* one value of f(b) per sample *)
FbShape(dist, shape) ==
  IF dist \in CATEGORICAL_SYNONYMS \cup ONEHOT_SYNONYMS THEN Front(shape)
  ELSE shape

Fbs(dist, shape, D, rows) ==
  IF dist \in CATEGORICAL_SYNONYMS \cup ONEHOT_SYNONYMS
  THEN {Tensor(Front(shape), <<x>>) : x \in FbVals}
  ELSE {Tensor(shape, r) : r \in rows}

ToZCalls ==
  \E dist \in Tags, fl \in Flags : \E D \in Dims(dist) :
    \E lg \in Rows(D, LogitVals), noise \in Rows(D, RawDraws) :
      call = [op |-> "to_z", dist |-> dist,
              logits |-> Logits(<<D>>, lg, fl[2]), warn |-> fl[1],
              noise |-> noise]

ToBCalls ==
  \E dist \in Tags : \E D \in Dims(dist) :
    \E zr \in Rows(D, LogitVals) :
      call = [op |-> "to_b", dist |-> dist, z |-> Tensor(<<D>>, zr)]

ZTildeCalls ==
  \E dist \in Tags : \E D \in Dims(dist) :
    \E lg \in Rows(D, LogitVals), noise \in Rows(D, RawDraws),
       b \in Support(dist, <<>>, D) :
      call = [op |-> "_to_z_tilde", dist |-> dist,
              logits |-> Logits(<<D>>, lg, TRUE), b |-> b, noise |-> noise]

ReinforceCalls ==
  \E dist \in Tags : \E D \in Dims(dist) :
    \E lg \in Rows(D, LogitVals), b \in Support(dist, <<>>, D),
       fb \in Fbs(dist, <<D>>, D, Rows(D, FbVals)) :
      call = [op |-> "reinforce", dist |-> dist,
              logits |-> Logits(<<D>>, lg, TRUE), b |-> b, fb |-> fb]

RelaxCalls ==
  \E dist \in Tags, comp \in BOOLEAN, c \in Controls : \E D \in Dims(dist) :
    \E lg \in Rows(D, LogitVals), b \in Support(dist, <<>>, D),
       fb \in Fbs(dist, <<D>>, D, ConstRows(D, FbVals)),
       noise \in ConstRows(D, RawDraws) :
      call = [op |-> "relax", dist |-> dist,
              logits |-> Logits(<<D>>, lg, TRUE), b |-> b, fb |-> fb,
              c |-> c, components |-> comp, noise |-> noise]

Pending == Outcome("pending", FALSE, 0, 0, NoTensor)

Init ==
  /\ \/ ToZCalls
     \/ ToBCalls
     \/ ZTildeCalls
     \/ ReinforceCalls
     \/ RelaxCalls
  /\ out = Pending
  /\ cv = NoCV
  /\ last = <<>>

Do_to_z ==
  /\ call.op = "to_z" /\ out = Pending
  /\ out' = to_z(call.logits, call.dist, call.warn, call.noise)
  /\ UNCHANGED <<call, cv, last>>

Do_to_b ==
  /\ call.op = "to_b" /\ out = Pending
  /\ out' = to_b(call.z, call.dist)
  /\ UNCHANGED <<call, cv, last>>

(* b = to_b(z, dist) on the z that to_z or _to_z_tilde just returned *)
Do_to_b_of_z ==
  /\ call.op \in {"to_z", "_to_z_tilde"}
  /\ out.exc = "none"
  /\ call' = [op |-> "to_b", dist |-> call.dist,
              z |-> Tensor(out.ret.shape, out.ret.row)]
  /\ out' = to_b(out.ret, call.dist)
  /\ UNCHANGED <<cv, last>>

Do_to_z_tilde ==
  /\ call.op = "_to_z_tilde" /\ out = Pending
  /\ out' = _to_z_tilde(call.logits, call.b, call.dist, call.noise)
  /\ UNCHANGED <<call, cv, last>>

Do_reinforce ==
  /\ call.op = "reinforce" /\ out = Pending
  /\ out' = reinforce(call.fb, call.b, call.logits, call.dist)
  /\ UNCHANGED <<call, cv, last>>

Do_relax ==
  /\ call.op = "relax" /\ out = Pending
  /\ out' = relax(call.fb, call.b, call.logits, call.c, call.dist,
                  call.components, call.noise)
  /\ UNCHANGED <<call, cv, last>>

Next ==
  \/ Do_to_z
  \/ Do_to_b
  \/ Do_to_b_of_z
  \/ Do_to_z_tilde
  \/ Do_reinforce
  \/ Do_relax

Spec == Init /\ [][Next]_vars

(* ---- reinforce and relax over the shapes of their arguments ---- *)
RECURSIVE ShapesOfRank(_)
ShapesOfRank(n) ==
  IF n = 0 THEN {<<>>}
  ELSE {Append(s, d) : s \in ShapesOfRank(n - 1), d \in 1..MaxDim}

Shapes == UNION {ShapesOfRank(n) : n \in 1..MaxRank}

FirstSample(dist, shape) ==
  LET D == shape[Len(shape)]
  IN  IF dist \in CATEGORICAL_SYNONYMS THEN Tensor(Front(shape), <<0>>)
      ELSE Tensor(shape, [i \in 1..D |-> IF i = 1 THEN 1 ELSE 0])

OnesLike(shape) == [i \in 1..shape[Len(shape)] |-> One]

(* fb with one value per sample, and fb of the shape of logits whatever *)
(* the family                                                          *)
FbOfShape(dist, shape, per_sample) ==
  IF per_sample /\ dist \in CATEGORICAL_SYNONYMS \cup ONEHOT_SYNONYMS
  THEN Tensor(Front(shape), <<2>>)
  ELSE Tensor(shape, [i \in 1..shape[Len(shape)] |-> 2])

ShapeCalls ==
  \E dist \in Tags, shape \in Shapes, ps \in BOOLEAN :
    \/ call = [op |-> "reinforce", dist |-> dist,
               logits |-> Logits(shape, OnesLike(shape), TRUE),
               b |-> FirstSample(dist, shape),
               fb |-> FbOfShape(dist, shape, ps), per_sample |-> ps]
    \/ \E comp \in BOOLEAN :
         call = [op |-> "relax", dist |-> dist,
                 logits |-> Logits(shape, OnesLike(shape), TRUE),
                 b |-> FirstSample(dist, shape),
                 fb |-> FbOfShape(dist, shape, ps), per_sample |-> ps,
                 c |-> [at_z_tilde |-> 1, d_z |-> 1, d_z_tilde |-> 0],
                 components |-> comp,
                 noise |-> [i \in 1..shape[Len(shape)] |-> 1]]

InitShape ==
  /\ ShapeCalls
  /\ out = Pending
  /\ cv = NoCV
  /\ last = <<>>

NextShape ==
  \/ Do_reinforce
  \/ Do_relax

SpecShape == InitShape /\ [][NextShape]_vars

(* ------------------- the life of a control variate ------------------- *)
StartTemps ==
  {Pow10(k) : k \in (-MaxLogTemp)..MaxLogTemp} \cup {Zero, RInt(-1), R(-1, 10)}
StartEtas == {One, RInt(2)}
EtaVals == {RInt(-1), One, RInt(2)}

(* last: the two most recent operations on the control variate *)
Hist(op) == IF last = <<>> THEN <<op>> ELSE <<last[Len(last)], op>>
LastOp == IF last = <<>> THEN "none" ELSE last[Len(last)]

InitCV ==
  /\ call = [op |-> "none"]
  /\ out = Pending
  /\ cv = NoCV
  /\ last = <<>>

(* REBARControlVariate(f, dist, start_temp, start_eta, warn) *)
Construct ==
  /\ cv = NoCV
  /\ \E dist \in Tags, start_temp \in StartTemps, start_eta \in StartEtas,
        warn \in BOOLEAN :
       LET r == __init__(dist, start_temp, start_eta, warn)
       IN  /\ call' = [op |-> "__init__", dist |-> dist,
                       start_temp |-> start_temp, start_eta |-> start_eta,
                       warn |-> warn]
           /\ out' = Outcome(r.exc, r.warned, 0, 0, NoTensor)
           /\ cv' = r.self
           /\ last' = Hist("__init__")

(* the optimizer, or any caller, assigns the parameters *)
SetParameters ==
  /\ cv # NoCV
  /\ \E k \in (-MaxLogTemp)..MaxLogTemp, eta \in EtaVals :
       cv' = [cv EXCEPT !.log_temp = RInt(k), !.eta = eta]
  /\ last' = Hist("set")
  /\ out' = Pending
  /\ UNCHANGED call

Reset ==
  /\ cv # NoCV
  /\ cv' = reset_parameters(cv)
  /\ last' = Hist("reset")
  /\ out' = Pending
  /\ UNCHANGED call

Forward ==
  /\ cv # NoCV
  /\ \E z \in {<<RInt(-1), One>>, <<Zero>>}, fz \in {One} :
       out' = forward(cv, z, fz)
  /\ last' = Hist("forward")
  /\ UNCHANGED <<call, cv>>

NextCV ==
  \/ Construct
  \/ SetParameters
  \/ Reset
  \/ Forward

SpecCV == InitCV /\ [][NextCV]_vars

(* ============================== claims ============================== *)
Accepted == BERNOULLI_SYNONYMS \cup CATEGORICAL_SYNONYMS \cup ONEHOT_SYNONYMS
Done == out # Pending
Gt0(x) == RLt(One, x)
Lt0(x) == RLt(x, One)

(* C1: with a tag that is no accepted spelling of a family, to_z, to_b,   *)
(* reinforce and relax each end in ValueError and return no value,        *)
(* whatever the other arguments.                                          *)
C1_UnknownTagRaises ==
  (Done /\ call.op \in {"to_z", "to_b", "reinforce", "relax"}
        /\ call.dist \notin Accepted)
    => (out.exc = "ValueError" /\ out.ret = NoTensor)

C1_Witness ==
  /\ call.op = "to_b" /\ call.dist = "poisson"
  /\ Len(call.z.row) = MaxD
  /\ out.exc = "ValueError"

(* C2: for an accepted tag to_b(z, tag) is in the support of the family:  *)
(* every element 0 or 1 for Bernoulli, an index in 0..D-1 for             *)
(* Categorical, and for OneHotCategorical a row with exactly one 1 and    *)
(* D-1 zeros, also when entries of z tie for the maximum.                 *)
C2_Support ==
  (Done /\ call.op = "to_b" /\ call.dist \in Accepted) =>
    LET D == Len(call.z.row)
        b == out.ret
    IN  /\ out.exc = "none"
        /\ call.dist \in BERNOULLI_SYNONYMS =>
             (Len(b.row) = D /\ \A i \in 1..D : b.row[i] \in {0, 1})
        /\ call.dist \in CATEGORICAL_SYNONYMS =>
             (Len(b.row) = 1 /\ b.row[1] \in 0..(D - 1))
        /\ call.dist \in ONEHOT_SYNONYMS =>
             /\ Len(b.row) = D
             /\ \A i \in 1..D : b.row[i] \in {0, 1}
             /\ Cardinality({i \in 1..D : b.row[i] = 1}) = 1

C2_Witness ==
  /\ Done /\ call.op = "to_b" /\ call.dist = "onehot"
  /\ Len(call.z.row) = 2
  /\ call.z.row[1] = call.z.row[2]
  /\ out.ret.row = <<1, 0>>

(* C3: to_b(_to_z_tilde(logits, b, tag), tag) = b for every logits, every *)
(* b of the support and every draw; for Bernoulli the sign of z_tilde is  *)
(* that of b, for the categorical families the observed category is the   *)
(* strict arg-max of z_tilde.                                             *)
Observed(dist, b) ==
  IF dist \in CATEGORICAL_SYNONYMS THEN b.row[1] + 1
  ELSE CHOOSE k \in 1..Len(b.row) : b.row[k] = 1

C3_RoundTrip ==
  (Done /\ call.op = "_to_z_tilde" /\ call.dist \in Accepted) =>
    LET zt == out.ret
        D == Len(call.logits.row)
    IN  /\ out.exc = "none"
        /\ to_b(zt, call.dist).ret = call.b
        /\ call.dist \in BERNOULLI_SYNONYMS =>
             \A i \in 1..D :
               IF call.b.row[i] = 1 THEN Gt0(zt.row[i]) ELSE Lt0(zt.row[i])
        /\ call.dist \notin BERNOULLI_SYNONYMS =>
             \A i \in 1..D :
               i # Observed(call.dist, call.b) =>
                 RLt(zt.row[i], zt.row[Observed(call.dist, call.b)])

C3_Witness ==
  /\ Done /\ call.op = "_to_z_tilde" /\ call.dist = "cat"
  /\ Len(call.logits.row) = 2
  /\ call.b.row = <<1>>
  /\ RLt(call.logits.row[2], call.logits.row[1])
  /\ call.noise = <<RandDen - 1, 0>>
  /\ to_b(out.ret, "cat").ret.row = <<1>>

(* C4: the four terms relax returns with components=True recombine, as    *)
(* diff * dlog_pb + dc_z - dc_z_tilde, to what relax returns with         *)
(* components=False on the same arguments and the same draw.              *)
C4_Components ==
  (Done /\ call.op = "relax" /\ call.components /\ out.exc = "none") =>
    LET t == out.ret
        g == relax(call.fb, call.b, call.logits, call.c, call.dist, FALSE,
                   call.noise)
    IN  /\ g.exc = "none"
        /\ Sub(Add(Mul(t.diff, t.dlog_pb), t.dc_z), t.dc_z_tilde) = g.ret

C4_Witness ==
  /\ Done /\ call.op = "relax" /\ call.components /\ out.exc = "none"
  /\ call.dist = "onehot" /\ Len(call.logits.row) = 2
  /\ call.c = [at_z_tilde |-> 1, d_z |-> 0, d_z_tilde |-> 1]
  /\ out.ret.dc_z_tilde.row = <<One, One>>
  /\ out.ret.diff.shape = <<1>>

(* C5: when fb has one value per sample, reinforce and relax with         *)
(* components=False return a tensor of exactly the shape of logits, for   *)
(* all three families.                                                    *)
C5_ShapeOfLogits ==
  (/\ Done /\ call.op \in {"reinforce", "relax"} /\ call.dist \in Accepted
   /\ call.fb.shape = FbShape(call.dist, call.logits.shape)
   /\ call.op = "relax" => ~call.components)
    => (out.exc = "none" /\ out.ret.shape = call.logits.shape)

C5_Witness ==
  /\ Done /\ call.op = "relax" /\ call.dist = "Categorical"
  /\ ~call.components
  /\ call.logits.shape = <<MaxDim, 1>>
  /\ call.fb.shape = <<MaxDim>>
  /\ out.ret.shape = <<MaxDim, 1>>

(* C6: after any updates of log_temp and eta, reset_parameters leaves     *)
(* log_temp = log(start_temp) and eta = start_eta as given at             *)
(* construction (log(0.1) and 1.0 for the defaults), and a further reset  *)
(* changes nothing.                                                       *)
C6_Reset ==
  (LastOp = "reset") =>
    /\ cv.log_temp[2] = 1
    /\ Pow10(cv.log_temp[1]) = call.start_temp
    /\ cv.eta = call.start_eta
    /\ (call.start_temp = R(1, 10) /\ call.start_eta = One) =>
         (cv.log_temp = RInt(-1) /\ cv.eta = One)
    /\ reset_parameters(cv) = cv

C6_Witness ==
  /\ last = <<"set", "reset">>
  /\ call.start_temp = R(1, 10) /\ call.start_eta = One
  /\ cv.log_temp = RInt(-1) /\ cv.eta = One

(* C7: construction with start_temp = 0 or negative ends in ValueError    *)
(* and produces no instance, whatever the tag, start_eta and warn;        *)
(* construction with start_temp > 0 and an accepted tag succeeds.         *)
C7_StartTemp ==
  (LastOp = "__init__") =>
    /\ call.start_temp[1] <= 0 => (out.exc = "ValueError" /\ cv = NoCV)
    /\ (call.start_temp[1] > 0 /\ call.dist \in Accepted) =>
         (out.exc = "none" /\ cv # NoCV /\ cv.dist = call.dist
          /\ cv.start_temp = call.start_temp)

C7_Witness ==
  /\ LastOp = "__init__"
  /\ call.start_temp = Zero /\ call.dist = "onehot"
  /\ out.exc = "ValueError" /\ cv = NoCV

(* C8: in every state reached from a successful construction by updates   *)
(* of log_temp, resets and forward calls, the temperature exp(log_temp)   *)
(* by which forward divides is strictly positive: forward never divides   *)
(* by zero or by a negative temperature.                                  *)
C8_PositiveTemperature ==
  (LastOp = "forward") =>
    /\ RLt(Zero, out.temp)
    /\ \A i \in 1..Len(out.z_temp) : out.z_temp[i] # NaN

C8_Witness ==
  /\ last = <<"set", "forward">>
  /\ cv.log_temp = RInt(-MaxLogTemp)
  /\ out.temp = Pow10(-MaxLogTemp)

(* C9: a call of to_z, to_b, reinforce or relax that raises has had no    *)
(* partial effect: it has emitted no warning, consumed no draw of the     *)
(* uniform source and not invoked the control variate.                    *)
C9_NoPartialEffect ==
  (Done /\ call.op \in {"to_z", "to_b", "reinforce", "relax"}
        /\ out.exc # "none")
    => (~out.warned /\ out.draws = 0 /\ out.c_calls = 0)

(* C10: for Bernoulli, to_b(to_z(logits)) is decided by logits and the    *)
(* draw u with a strict threshold: b = 1 exactly when                     *)
(* logits + log(u) - log(1 - u) > 0.  With logits = 0: u = 0.5 gives      *)
(* z = 0 and b = 0, u > 0.5 gives b = 1, u < 0.5 gives b = 0.             *)
C10_BernoulliThreshold ==
  (Done /\ call.op = "to_z" /\ call.dist \in BERNOULLI_SYNONYMS) =>
    LET b == to_b(out.ret, call.dist).ret
    IN  \A i \in 1..Len(call.logits.row) :
          LET l == call.logits.row[i]
              u == RMax(R(1, EpsDen),
                        RMin(R(EpsDen - 1, EpsDen), R(call.noise[i], RandDen)))
              k == call.noise[i]
          IN  /\ b.row[i] \in {0, 1}
              /\ b.row[i] = 1 <=> l[1] * u[1] > l[2] * (u[2] - u[1])
              /\ (l = One /\ 2 * k = RandDen) =>
                   (out.ret.row[i] = One /\ b.row[i] = 0)
              /\ (l = One /\ 2 * k > RandDen) => b.row[i] = 1
              /\ (l = One /\ 2 * k < RandDen) => b.row[i] = 0

C10_Witness ==
  /\ Done /\ call.op = "to_z" /\ call.dist = "bern"
  /\ call.logits.row = <<One>>
  /\ 2 * call.noise[1] = RandDen
  /\ out.ret.row = <<One>>
  /\ to_b(out.ret, "bern").ret.row = <<0>>

====
